---- MODULE Spec2Model ----
(***************************************************************************)
(* check-links: discovery of links in documentation files, concurrent      *)
(* verification of every link in its own tokio task, and aggregation of    *)
(* the results over a bounded mpsc channel (src/src/main.rs), together     *)
(* with the per-link resolution logic (src/src/link.rs).                   *)
(*                                                                         *)
(* Text is modelled as a sequence of pieces.  A raw link target is a       *)
(* sequence of one-character pieces; a formatted message is the sequence   *)
(* of its literal pieces and the characters of its formatted arguments.    *)
(*                                                                         *)
(* Taken as given: writes of the logger to stdout succeed (every           *)
(* `logger.x(..)?` is Ok), and the u32 counters stay far below 2^32.  The  *)
(* network and the file system are the environment: what a probe, an       *)
(* exists() test or a file read answers is chosen nondeterministically.    *)
(***************************************************************************)
EXTENDS Integers, Sequences, FiniteSets, TLC

VARIABLES
    pc,         \* position of main: "walk", "match", "scan", "recv", "summary", "returned", "exited"
    walked,     \* number of paths file_iter has yielded so far
    path,       \* the path of the current iteration of `for path in file_iter`
    d,          \* index into doc_files of the inner `for doc_file in &doc_files`
    links,      \* every Link handed to the iter_links callback, in spawn order
    task,       \* the state of the task spawned for links[i]
    chan,       \* the mpsc channel's buffer: Links sent and not yet received
    tx,         \* TRUE while main still owns its Sender
    rx,         \* TRUE while the Receiver is alive
    n_links,    \* main.rs:89
    n_errors,   \* main.rs:131
    n_warnings, \* main.rs:132
    delivered,  \* delivered[i]: how many times rx.recv() has returned links[i]
    summary,    \* the summary line handed to the logger, if any
    exit_code,  \* the process exit status, once the process has ended
    scan_failed,\* history: some call of iter_links has returned Err
    consulted,  \* history: the categories is_match was asked about the current path, in order
    opt,        \* the command line options the logger is built from (main.rs:53-54)
    printed,    \* the lines the logger has written on stdout for the summary
    raw,        \* input of the pure-function specifications: a raw link text
    env,        \* input of the pure-function specifications: the world a Link is verified in
    out         \* result of the pure function applied to the input

vars == <<pc, walked, path, d, links, task, chan, tx, rx, n_links, n_errors,
          n_warnings, delivered, summary, exit_code, scan_failed, consulted,
          opt, printed, raw, env, out>>

mainVars == <<pc, walked, path, d, links, task, chan, tx, rx, n_links, n_errors,
              n_warnings, delivered, summary, exit_code, scan_failed, consulted,
              opt, printed>>

pureVars == <<raw, env, out>>

-----------------------------------------------------------------------------
(* Bounds of the model.                                                    *)

MaxFiles == 2       \* paths the directory walk yields
MaxLinks == 2       \* links extracted in one run
ChanCap == 1        \* the channel's capacity, scaled down from channel(100)
MaxRawLen == 4      \* length of a raw link text in SplitSpec
MaxVerbose == 3     \* occurrences of -v in LogSpec
MinCode == 100      \* smallest HTTP status code probed in VerifySpec
MaxCode == 599      \* largest HTTP status code probed in VerifySpec

-----------------------------------------------------------------------------
(* Option<T>: None is the empty tuple, Some(x) the one-element tuple.      *)

None == <<>>
Some(x) == <<x>>
IsSome(o) == Len(o) = 1
Unwrap(o) == o[1]

-----------------------------------------------------------------------------
(* Text helpers.                                                           *)

Max(S) == CHOOSE x \in S : \A y \in S : y <= x

StartsWith(s, p) == Len(s) >= Len(p) /\ SubSeq(s, 1, Len(p)) = p

\* s contains p as a contiguous run of pieces
Contains(s, p) ==
    \E i \in 0..(Len(s) - Len(p)) : SubSeq(s, i + 1, i + Len(p)) = p

\* the decimal digits of n, as `{}` formats an unsigned integer
RECURSIVE Digits(_)
Digits(n) ==
    LET digit == <<"0", "1", "2", "3", "4", "5", "6", "7", "8", "9">>[(n % 10) + 1]
    IN  IF n < 10 THEN <<digit>> ELSE Digits(n \div 10) \o <<digit>>

\* ASCII lower-casing of the characters the model uses
LowerChar(c) ==
    CASE c = "A" -> "a"
      [] c = "S" -> "s"
      [] OTHER -> c

Lower(s) == [i \in 1..Len(s) |-> LowerChar(s[i])]

\* str::replace("-", " ")
ReplaceHyphens(s) == [i \in 1..Len(s) |-> IF s[i] = "-" THEN " " ELSE s[i]]

-----------------------------------------------------------------------------
(* link.rs: Link, LinkKind, LinkStatus.                                    *)

Reachable == [tag |-> "Reachable"]
Questionable(reason) == [tag |-> "Questionable", reason |-> reason]
Unreachable(reason) == [tag |-> "Unreachable", reason |-> reason]

\* the outcome of a verification that panics instead of returning a LinkStatus
Panic == [tag |-> "Panic"]

HttpPrefix == <<"h", "t", "t", "p">>

\* Link::new: kind is decided by the prefix test, status starts absent; the
\* owning file is named by the position of its path in the walk
Link_new(file, r) ==
    [file |-> file,
     raw |-> r,
     kind |-> IF StartsWith(r, HttpPrefix) THEN "Http" ELSE "Local",
     status |-> None]

\* the characters of the class [A-Za-z0-9_-] among those the model uses
TokenChars == {"a", "s", "h", "t", "p", "A", "S", "_", "-", "1"}

\* SECTION_RE = ^(.*)#+([A-Za-z0-9_-]+)$ : the lengths k of group 1 for which
\* the rest of the text is a run of '#' followed by a token up to the end
SectionMatches(r) ==
    {k \in 0..Len(r) :
        \E j \in (k + 2)..Len(r) :
            /\ \A i \in (k + 1)..(j - 1) : r[i] = "#"
            /\ \A i \in j..Len(r) : r[i] \in TokenChars}

\* SECTION_RE.captures: (.*) is greedy, so group 1 is the longest prefix that
\* leaves a match; group 2 starts after the '#' run that follows it
SectionCaptures(r) ==
    IF SectionMatches(r) = {} THEN None
    ELSE LET k == Max(SectionMatches(r))
             j == CHOOSE j \in (k + 2)..Len(r) :
                     /\ \A i \in (k + 1)..(j - 1) : r[i] = "#"
                     /\ \A i \in j..Len(r) : r[i] \in TokenChars
         IN  Some([g1 |-> SubSeq(r, 1, k), g2 |-> SubSeq(r, j, Len(r))])

\* Link::split_section: (base, section), each an Option
split_section(r) ==
    LET caps == SectionCaptures(r)
    IN  IF IsSome(caps)
        THEN LET section == Unwrap(caps).g2
                 base == Unwrap(caps).g1
             IN  IF base = <<>>
                 THEN [base |-> None, section |-> Some(section)]
                 ELSE [base |-> Some(base), section |-> Some(section)]
        ELSE [base |-> Some(r), section |-> None]

\* find_section with the section used as the pattern as it stands, without
\* section.replace("-", " ")
find_section_NoReplace(content, section) ==
    LET pattern == Lower(section)
    IN  IF ~content.readable THEN Panic
        ELSE [tag |-> "Ok",
              val |-> \E n \in 1..Len(content.lines) :
                          Contains(Lower(content.lines[n]), pattern)]

\* Link::find_section on a file whose reading gives `content`:
\* [readable |-> BOOLEAN, lines |-> the file's lines, err |-> the read error].
\* The matcher is the section with '-' replaced by ' ', case-insensitive, and
\* its construction cannot fail on a token of [A-Za-z0-9_-]; the result of
\* search_path is unwrapped, so a read error panics.
find_section(content, section) ==
    LET pattern == Lower(ReplaceHyphens(section))
    IN  IF ~content.readable THEN Panic
        ELSE [tag |-> "Ok",
              val |-> \E n \in 1..Len(content.lines) :
                          Contains(Lower(content.lines[n]), pattern)]

\* HttpResponse without the arm for 403, which then falls to the default arm
HttpResponse_No403(status) ==
    CASE status = 200 -> Reachable
      [] status = 302 -> Reachable
      [] status = 401 -> Questionable(<<"received status code ">> \o Digits(status))
      [] status = 405 -> Questionable(<<"received status code ">> \o Digits(status))
      [] status = 406 -> Questionable(<<"received status code ">> \o Digits(status))
      [] OTHER -> Unreachable(Some(<<"received status code ">> \o Digits(status)))

\* _verify, Http branch, Ok(response): the status-code table
HttpResponse(status) ==
    CASE status = 200 -> Reachable
      [] status = 302 -> Reachable
      [] status = 401 -> Questionable(<<"received status code ">> \o Digits(status))
      [] status = 403 -> Questionable(<<"received status code ">> \o Digits(status))
      [] status = 405 -> Questionable(<<"received status code ">> \o Digits(status))
      [] status = 406 -> Questionable(<<"received status code ">> \o Digits(status))
      [] OTHER -> Unreachable(Some(<<"received status code ">> \o Digits(status)))

\* HttpError without the arm for isahc::Error::Timeout
HttpError_NoTimeoutArm(e) == Unreachable(None)

\* _verify, Http branch, Err(e)
HttpError(e) ==
    IF e = "Timeout" THEN Unreachable(Some(<<"timeout error">>))
    ELSE Unreachable(None)

\* _verify, Local branch, section present: the result of find_section mapped
\* to a status; `verb` is "resolve" or "find" in the Err arm's message
SectionStatus(found, s, verb) ==
    CASE found.tag = "Panic" -> Panic
      [] found.tag = "Ok" /\ found.val -> Reachable
      [] found.tag = "Ok" /\ ~found.val ->
            Questionable(<<"failed to resolve section #">> \o s)
      [] OTHER ->
            Questionable(<<"failed to ", verb, " section #">> \o s \o <<" ", found.err>>)

\* Path::new("./")
CurDir == <<"./">>

\* Path::join: an absolute path replaces the directory, a relative one is
\* appended to it, with a separator unless the directory is empty or ends
\* with one
Join(dir, b) ==
    IF b # <<>> /\ b[1] = "/" THEN b
    ELSE IF dir = <<>> THEN b
    ELSE IF dir[Len(dir)] \in {"/", "./"} THEN dir \o b
    ELSE dir \o <<"/">> \o b

\* link.rs:104-107: the parent directory of the referring file, or "./";
\* e.parent is what self.file.parent() returns
Dir(e) == IF IsSome(e.parent) THEN Unwrap(e.parent) ELSE CurDir

\* Path::exists: e.fs is the set of the paths that exist
Exists(e, p) == p \in e.fs

\* VerifyLocal with the base tested as it stands, relative to the working
\* directory, instead of dir.join(base)
VerifyLocal_NoJoin(link, e) ==
    LET split == split_section(link.raw)
    IN  IF ~IsSome(split.section)
        THEN IF IsSome(split.base)
             THEN IF Exists(e, Join(CurDir, Unwrap(split.base)))
                  THEN Reachable ELSE Unreachable(None)
             ELSE Unreachable(None)
        ELSE LET s == Unwrap(split.section)
             IN  IF IsSome(split.base)
                 THEN IF Exists(e, Join(CurDir, Unwrap(split.base)))
                      THEN SectionStatus(find_section(e.content, s), s, "resolve")
                      ELSE Unreachable(None)
                 ELSE SectionStatus(find_section(e.content, s), s, "find")

\* _verify, Local branch.  e.content is what reading the section target
\* gives.
VerifyLocal(link, e) ==
    LET split == split_section(link.raw)
    IN  IF ~IsSome(split.section)
        THEN IF IsSome(split.base)
             THEN IF Exists(e, Join(Dir(e), Unwrap(split.base)))
                  THEN Reachable ELSE Unreachable(None)
             ELSE Unreachable(None)
        ELSE LET s == Unwrap(split.section)
             IN  IF IsSome(split.base)
                 THEN IF Exists(e, Join(Dir(e), Unwrap(split.base)))
                      THEN SectionStatus(find_section(e.content, s), s, "resolve")
                      ELSE Unreachable(None)
                 ELSE SectionStatus(find_section(e.content, s), s, "find")

\* Link::_verify in the world e = [resp, parent, fs, content]; e.resp is what
\* head_async returns: [ok |-> TRUE, status |-> code] or [ok |-> FALSE, err |-> kind]
_verify(link, e) ==
    IF link.kind = "Http"
    THEN IF e.resp.ok THEN HttpResponse(e.resp.status) ELSE HttpError(e.resp.err)
    ELSE VerifyLocal(link, e)

-----------------------------------------------------------------------------
(* doc_file.rs and the configuration of main.                              *)

\* main.rs:64-73: the Rust category first, then the Markdown category
doc_files ==
    <<[glob |-> "rs", match_group |-> 2], [glob |-> "md", match_group |-> 1]>>

\* the extensions of the paths the walk yields
Exts == {"rs", "md", "txt"}

\* DocFile::is_match: the glob set of a category is the single glob *.<ext>
is_match(doc_file, p) == p.ext = doc_file.glob

\* Level as i32 (log.rs:6-11)
LevelNum(level) ==
    CASE level = "DEBUG" -> 0
      [] level = "INFO" -> 1
      [] level = "WARNING" -> 2
      [] level = "ERROR" -> 3

\* Logger::default: the least level the logger shows
Logger_default(verbosity, color) ==
    [level |-> CASE verbosity = 0 -> "ERROR"
                 [] verbosity = 1 -> "WARNING"
                 [] verbosity = 2 -> "INFO"
                 [] OTHER -> "DEBUG",
     color |-> color]

\* the prelude and the colour Logger::debug, info, warn and error pass on
Prelude(level) ==
    CASE level = "DEBUG" -> [text |-> "DEBU: ", color |-> "cyan"]
      [] level = "INFO" -> [text |-> "INFO: ", color |-> "green"]
      [] level = "WARNING" -> [text |-> "WARN: ", color |-> "yellow"]
      [] level = "ERROR" -> [text |-> "ERRO: ", color |-> "red"]

\* Colorize::color: the text between the escape sequence of the colour and
\* the reset
Colored(text, color) == <<"ESC[", color>> \o text \o <<"ESC[0m">>

\* Logger::log, as the lines it writes: none below the logger's level
Logger_log(logger, level, msg) ==
    IF LevelNum(level) >= LevelNum(logger.level)
    THEN IF logger.color
         THEN <<Colored(<<Prelude(level).text>>, Prelude(level).color)
                    \o Colored(msg, Prelude(level).color)>>
         ELSE <<<<Prelude(level).text>> \o msg>>
    ELSE <<>>

\* the options of a run without arguments: verbose is 0, no_color is false
DefaultOpt == [verbose |-> 0, no_color |-> FALSE]

\* maybe_pluralize
maybe_pluralize(n) == IF n = 1 THEN "" ELSE "s"

\* the summary line of main.rs:156-164 and 167-175
SummaryLine(e, w, n) ==
    Digits(e) \o <<" error", maybe_pluralize(e), ", ">>
        \o Digits(w) \o <<" warning", maybe_pluralize(w), " out of ">>
        \o Digits(n) \o <<" link", maybe_pluralize(n), " found">>

-----------------------------------------------------------------------------
(* The worlds and raw texts the specifications draw from.                  *)

ErrKinds == {"Timeout", "ConnectFailed", "CouldntResolveHost", "BadServerCertificate"}

HttpResults ==
    {[ok |-> TRUE, status |-> c, err |-> ""] : c \in MinCode..MaxCode}
        \cup {[ok |-> FALSE, status |-> 0, err |-> k] : k \in ErrKinds}

Unreadable == [readable |-> FALSE, lines |-> <<>>, err |-> "Is a directory (os error 21)"]
WithHeading == [readable |-> TRUE, lines |-> <<<<"a">>, <<"#", " ", "S">>>>, err |-> ""]
WithoutHeading == [readable |-> TRUE, lines |-> <<<<"a">>>>, err |-> ""]

WithSpacedHeading ==
    [readable |-> TRUE, lines |-> <<<<"#", " ", "S", " ", "A">>>>, err |-> ""]

Contents == {Unreadable, WithHeading, WithoutHeading, WithSpacedHeading}

Docs == <<"d", "o", "c", "s">>

\* what self.file.parent() returns
Parents == {None, Some(Docs)}

\* the sets of existing paths
FileSystems == {{}, {Join(CurDir, <<"a">>)}, {Join(Docs, <<"a">>)}}

Envs == [resp : HttpResults, parent : Parents, fs : FileSystems, content : Contents]

VerifyRaws ==
    {HttpPrefix, <<"a">>, <<"a", "#", "s">>, <<"#", "s">>, <<"a", "#", "#", "s">>,
     <<"#", "s", "-", "a">>}

Alphabet == {"a", "#", "-", "."}

\* the non-empty texts over Alphabet of length at most MaxRawLen
SplitRaws == UNION {[1..k -> Alphabet] : k \in 1..MaxRawLen}

\* the raw texts and worlds of the run model
MainRaws == {HttpPrefix, <<"a", "#", "s">>}

MainEnvs ==
    {[resp |-> [ok |-> TRUE, status |-> 200, err |-> ""], parent |-> Some(Docs),
      fs |-> {Join(Docs, <<"a">>)}, content |-> WithHeading],
     [resp |-> [ok |-> TRUE, status |-> 401, err |-> ""], parent |-> Some(Docs),
      fs |-> {Join(Docs, <<"a">>)}, content |-> WithoutHeading],
     [resp |-> [ok |-> FALSE, status |-> 0, err |-> "Timeout"], parent |-> Some(Docs),
      fs |-> {Join(Docs, <<"a">>)}, content |-> Unreadable]}

IdleEnv ==
    [resp |-> [ok |-> FALSE, status |-> 0, err |-> ""], parent |-> None, fs |-> {},
     content |-> Unreadable]

NoPath == [id |-> 0, ext |-> ""]

-----------------------------------------------------------------------------
(* Initial states.                                                         *)

MainInit ==
    /\ pc = "walk"
    /\ walked = 0
    /\ path = NoPath
    /\ d = 0
    /\ links = <<>>
    /\ task = <<>>
    /\ chan = <<>>
    /\ tx = TRUE
    /\ rx = TRUE
    /\ n_links = 0
    /\ n_errors = 0
    /\ n_warnings = 0
    /\ delivered = <<>>
    /\ summary = None
    /\ exit_code = None
    /\ scan_failed = FALSE
    /\ consulted = <<>>
    /\ opt = DefaultOpt
    /\ printed = <<>>

PureIdle ==
    /\ raw = <<>>
    /\ env = IdleEnv
    /\ out = None

Init == MainInit /\ PureIdle

-----------------------------------------------------------------------------
(* main: discovery (main.rs:101-125).                                      *)

Running == exit_code = None

\* `for path in file_iter`: the walk yields one more path
NextFile ==
    /\ Running /\ pc = "walk"
    /\ walked < MaxFiles
    /\ \E ext \in Exts :
          path' = [id |-> walked + 1, ext |-> ext]
    /\ walked' = walked + 1
    /\ d' = 1
    /\ consulted' = <<>>
    /\ pc' = "match"
    /\ UNCHANGED <<links, task, chan, tx, rx, n_links, n_errors, n_warnings,
                   delivered, summary, exit_code, scan_failed,
                   opt, printed>>

\* one iteration of `for doc_file in &doc_files`: a match starts the scan of
\* the path with this category, a miss goes on to the next category, and the
\* path is skipped when no category is left
TryMatch ==
    /\ Running /\ pc = "match"
    /\ consulted' = Append(consulted, d)
    /\ IF is_match(doc_files[d], path)
       THEN pc' = "scan" /\ d' = d
       ELSE IF d < Len(doc_files)
            THEN pc' = "match" /\ d' = d + 1
            ELSE pc' = "walk" /\ d' = d
    /\ UNCHANGED <<walked, path, links, task, chan, tx, rx, n_links, n_errors,
                   n_warnings, delivered, summary, exit_code, scan_failed,
                   opt, printed>>

\* the iter_links callback (main.rs:108-117): count the link, clone the
\* sender and spawn the task that verifies and sends it
Callback ==
    /\ Running /\ pc = "scan"
    /\ n_links < MaxLinks
    /\ \E r \in MainRaws :
          links' = Append(links, Link_new(path.id, r))
    /\ n_links' = n_links + 1
    /\ task' = Append(task, "spawned")
    /\ delivered' = Append(delivered, 0)
    /\ UNCHANGED <<pc, walked, path, d, chan, tx, rx, n_errors, n_warnings,
                   summary, exit_code, scan_failed,
                   consulted, opt, printed>>

\* IterLinksOk without the `break`: the category loop goes on after the scan
IterLinksOk_NoBreak ==
    /\ Running /\ pc = "scan"
    /\ IF d < Len(doc_files)
       THEN pc' = "match" /\ d' = d + 1
       ELSE pc' = "walk" /\ d' = d
    /\ UNCHANGED <<walked, path, links, task, chan, tx, rx, n_links,
                   n_errors, n_warnings, delivered, summary, exit_code, scan_failed,
                   consulted, opt, printed>>

\* iter_links returns Ok(()): `break` out of the category loop
IterLinksOk ==
    /\ Running /\ pc = "scan"
    /\ pc' = "walk"
    /\ UNCHANGED <<walked, path, d, links, task, chan, tx, rx, n_links,
                   n_errors, n_warnings, delivered, summary, exit_code, scan_failed,
                   consulted, opt, printed>>

\* iter_links returns Err (the file cannot be opened or read, or a matched
\* line is not UTF-8): `?` returns the error from main, whose locals tx and
\* rx are dropped with whatever the channel still holds
IterLinksErr ==
    /\ Running /\ pc = "scan"
    /\ pc' = "returned"
    /\ tx' = FALSE
    /\ rx' = FALSE
    /\ chan' = <<>>
    /\ scan_failed' = TRUE
    /\ UNCHANGED <<walked, path, d, links, task, n_links, n_errors, n_warnings,
                   delivered, summary, exit_code,
                   consulted, opt, printed>>

\* main returned Err: the runtime is shut down and ExitFailure ends the
\* process with status 1
ReturnErr ==
    /\ Running /\ pc = "returned"
    /\ pc' = "exited"
    /\ exit_code' = Some(1)
    /\ UNCHANGED <<walked, path, d, links, task, chan, tx, rx, n_links,
                   n_errors, n_warnings, delivered, summary, scan_failed,
                   consulted, opt, printed>>

\* DropTx without the drop: main goes on to receive with its sender alive
DropTx_KeepsTx ==
    /\ Running /\ pc = "walk"
    /\ pc' = "recv"
    /\ UNCHANGED <<walked, path, d, links, task, chan, tx, rx, n_links, n_errors,
                   n_warnings, delivered, summary, exit_code, scan_failed,
                   consulted, opt, printed>>

\* the walk is exhausted: drop(tx) (main.rs:128)
DropTx ==
    /\ Running /\ pc = "walk"
    /\ tx' = FALSE
    /\ pc' = "recv"
    /\ UNCHANGED <<walked, path, d, links, task, chan, rx, n_links, n_errors,
                   n_warnings, delivered, summary, exit_code, scan_failed,
                   consulted, opt, printed>>

-----------------------------------------------------------------------------
(* main: aggregation and summary (main.rs:131-178).                        *)

\* the tasks that still own a clone of the sender
LiveSenders == {i \in 1..Len(task) : task[i] \in {"spawned", "verifying", "sending"}}

\* rx.recv() returns Some(link): log it and count it by its status
Recv ==
    /\ Running /\ pc = "recv"
    /\ chan # <<>>
    /\ LET i == Head(chan)
           link == links[i]
       IN  /\ chan' = Tail(chan)
           /\ delivered' = [delivered EXCEPT ![i] = @ + 1]
           /\ IF ~IsSome(link.status)
              THEN \* status.unwrap() on None panics in main
                   /\ pc' = "exited"
                   /\ exit_code' = Some(101)
                   /\ UNCHANGED <<n_errors, n_warnings>>
              ELSE /\ UNCHANGED <<pc, exit_code>>
                   /\ n_warnings' = IF Unwrap(link.status).tag = "Questionable"
                                    THEN n_warnings + 1 ELSE n_warnings
                   /\ n_errors' = IF Unwrap(link.status).tag = "Unreachable"
                                  THEN n_errors + 1 ELSE n_errors
    /\ UNCHANGED <<walked, path, d, links, task, tx, rx, n_links, summary,
                   scan_failed,
                   consulted, opt, printed>>

\* RecvNone by a receive that does not wait for the senders: an empty
\* buffer ends the loop
RecvNone_TryRecv ==
    /\ Running /\ pc = "recv"
    /\ chan = <<>>
    /\ pc' = "summary"
    /\ UNCHANGED <<walked, path, d, links, task, chan, tx, rx, n_links,
                   n_errors, n_warnings, delivered, summary, exit_code, scan_failed,
                   consulted, opt, printed>>

\* rx.recv() returns None: the buffer is empty and every sender is dropped
RecvNone ==
    /\ Running /\ pc = "recv"
    /\ chan = <<>>
    /\ ~tx
    /\ LiveSenders = {}
    /\ pc' = "summary"
    /\ UNCHANGED <<walked, path, d, links, task, chan, tx, rx, n_links,
                   n_errors, n_warnings, delivered, summary, exit_code, scan_failed,
                   consulted, opt, printed>>

\* SummaryOutcome with process::exit(1) left out after the error line, so
\* that main falls through to Ok(())
SummaryOutcome_NoExit(nl, ne, nw) ==
    IF nl = 0
    THEN [level |-> "INFO", msg |-> <<"No links found">>, exit |-> 0]
    ELSE IF ne > 0
         THEN [level |-> "ERROR", msg |-> SummaryLine(ne, nw, nl), exit |-> 0]
         ELSE [level |-> "INFO", msg |-> SummaryLine(ne, nw, nl), exit |-> 0]

\* main.rs:152-178: the message handed to the logger and the exit status:
\* process::exit(1) after the error line, Ok(()) otherwise
SummaryOutcome(nl, ne, nw) ==
    IF nl = 0
    THEN [level |-> "INFO", msg |-> <<"No links found">>, exit |-> 0]
    ELSE IF ne > 0
         THEN [level |-> "ERROR", msg |-> SummaryLine(ne, nw, nl), exit |-> 1]
         ELSE [level |-> "INFO", msg |-> SummaryLine(ne, nw, nl), exit |-> 0]

\* main.rs:152-178: the summary line and the end of the process
Summary ==
    /\ Running /\ pc = "summary"
    /\ LET o == SummaryOutcome(n_links, n_errors, n_warnings)
       IN  /\ summary' = Some([level |-> o.level, msg |-> o.msg])
           /\ printed' = Logger_log(Logger_default(opt.verbose, ~opt.no_color),
                                     o.level, o.msg)
           /\ exit_code' = Some(o.exit)
    /\ pc' = "exited"
    /\ UNCHANGED <<walked, path, d, links, task, chan, tx, rx, n_links,
                   n_errors, n_warnings, delivered, scan_failed,
                   consulted, opt>>

-----------------------------------------------------------------------------
(* The task spawned for links[i] (main.rs:112-117).                        *)

\* TaskStart by a runtime that runs one task at a time: a task starts only
\* when no other is between its start and its end
TaskStart_Serial(i) ==
    /\ Running /\ task[i] = "spawned"
    /\ \A j \in 1..Len(task) : task[j] \notin {"verifying", "sending"}
    /\ task' = [task EXCEPT ![i] = "verifying"]
    /\ UNCHANGED <<pc, walked, path, d, links, chan, tx, rx, n_links, n_errors,
                   n_warnings, delivered, summary, exit_code, scan_failed,
                   consulted, opt, printed>>

\* the runtime starts polling the task
TaskStart(i) ==
    /\ Running /\ task[i] = "spawned"
    /\ task' = [task EXCEPT ![i] = "verifying"]
    /\ UNCHANGED <<pc, walked, path, d, links, chan, tx, rx, n_links, n_errors,
                   n_warnings, delivered, summary, exit_code, scan_failed,
                   consulted, opt, printed>>

\* TaskVerify by a task that may verify again a Link it has verified
TaskVerify_Twice(i) ==
    /\ Running /\ task[i] \in {"verifying", "sending"}
    /\ \E e \in MainEnvs :
          LET st == _verify(links[i], e)
          IN  IF st.tag = "Panic"
              THEN /\ task' = [task EXCEPT ![i] = "panicked"]
                   /\ UNCHANGED links
              ELSE /\ task' = [task EXCEPT ![i] = "sending"]
                   /\ links' = [links EXCEPT ![i].status = Some(st)]
    /\ UNCHANGED <<pc, walked, path, d, chan, tx, rx, n_links, n_errors,
                   n_warnings, delivered, summary, exit_code, scan_failed,
                   consulted, opt, printed>>

\* Link::verify: status = Some(_verify(..)); a panic inside _verify ends the
\* task, and its Link and its sender are dropped
TaskVerify(i) ==
    /\ Running /\ task[i] = "verifying"
    /\ \E e \in MainEnvs :
          LET st == _verify(links[i], e)
          IN  IF st.tag = "Panic"
              THEN /\ task' = [task EXCEPT ![i] = "panicked"]
                   /\ UNCHANGED links
              ELSE /\ task' = [task EXCEPT ![i] = "sending"]
                   /\ links' = [links EXCEPT ![i].status = Some(st)]
    /\ UNCHANGED <<pc, walked, path, d, chan, tx, rx, n_links, n_errors,
                   n_warnings, delivered, summary, exit_code, scan_failed,
                   consulted, opt, printed>>

\* tx.send(link).await completes: the channel had room
TaskSend(i) ==
    /\ Running /\ task[i] = "sending"
    /\ rx
    /\ Len(chan) < ChanCap
    /\ chan' = Append(chan, i)
    /\ task' = [task EXCEPT ![i] = "done"]
    /\ UNCHANGED <<pc, walked, path, d, links, tx, rx, n_links, n_errors,
                   n_warnings, delivered, summary, exit_code, scan_failed,
                   consulted, opt, printed>>

\* TaskSendFail with the error of send ignored: the task ends and its Link
\* is dropped
TaskSendFail_Discard(i) ==
    /\ Running /\ task[i] = "sending"
    /\ ~rx
    /\ task' = [task EXCEPT ![i] = "done"]
    /\ UNCHANGED <<pc, walked, path, d, links, chan, tx, rx, n_links, n_errors,
                   n_warnings, delivered, summary, exit_code, scan_failed, consulted, opt, printed>>

\* tx.send(link).await is an error, the receiver is gone: process::exit(1)
\* ends the process where main stands
TaskSendFail(i) ==
    /\ Running /\ task[i] = "sending"
    /\ ~rx
    /\ exit_code' = Some(1)
    /\ UNCHANGED <<pc, walked, path, d, links, task, chan, tx, rx, n_links,
                   n_errors, n_warnings, delivered, summary, scan_failed,
                   consulted, opt, printed>>

-----------------------------------------------------------------------------
(* The run of the program.                                                 *)

Next ==
    \/ NextFile /\ UNCHANGED pureVars
    \/ TryMatch /\ UNCHANGED pureVars
    \/ Callback /\ UNCHANGED pureVars
    \/ IterLinksOk /\ UNCHANGED pureVars
    \/ IterLinksErr /\ UNCHANGED pureVars
    \/ ReturnErr /\ UNCHANGED pureVars
    \/ DropTx /\ UNCHANGED pureVars
    \/ Recv /\ UNCHANGED pureVars
    \/ RecvNone /\ UNCHANGED pureVars
    \/ Summary /\ UNCHANGED pureVars
    \/ \E i \in 1..Len(task) : TaskStart(i) /\ UNCHANGED pureVars
    \/ \E i \in 1..Len(task) : TaskVerify(i) /\ UNCHANGED pureVars
    \/ \E i \in 1..Len(task) : TaskSend(i) /\ UNCHANGED pureVars
    \/ \E i \in 1..Len(task) : TaskSendFail(i) /\ UNCHANGED pureVars

Spec == Init /\ [][Next]_vars

-----------------------------------------------------------------------------
(* The summary of main (main.rs:152-178) after every count the receive     *)
(* loop can leave, under every verbosity and both colour settings.         *)

LogInit ==
    /\ pc = "summary"
    /\ walked = 0
    /\ path = NoPath
    /\ d = 0
    /\ links = <<>>
    /\ task = <<>>
    /\ chan = <<>>
    /\ tx = FALSE
    /\ rx = TRUE
    /\ n_links \in 0..MaxLinks
    /\ n_errors \in 0..n_links
    /\ n_warnings \in 0..(n_links - n_errors)
    /\ delivered = <<>>
    /\ summary = None
    /\ exit_code = None
    /\ scan_failed = FALSE
    /\ consulted = <<>>
    /\ opt \in [verbose : 0..MaxVerbose, no_color : BOOLEAN]
    /\ printed = <<>>
    /\ PureIdle

LogNext == Summary /\ UNCHANGED pureVars

LogSpec == LogInit /\ [][LogNext]_vars

-----------------------------------------------------------------------------
(* Link::split_section applied to every raw text of SplitRaws.             *)

SplitInit ==
    /\ MainInit
    /\ raw \in SplitRaws
    /\ env = IdleEnv
    /\ out = None

Split ==
    /\ out = None
    /\ out' = Some(split_section(raw))
    /\ UNCHANGED <<raw, env>>
    /\ UNCHANGED mainVars

SplitNext == Split

SplitSpec == SplitInit /\ [][SplitNext]_vars

-----------------------------------------------------------------------------
(* Link::new followed by Link::verify in every world of Envs.              *)

VerifyInit ==
    /\ MainInit
    /\ raw \in VerifyRaws
    /\ env \in Envs
    /\ out = None

Verify ==
    /\ out = None
    /\ out' = Some(_verify(Link_new(NoPath.id, raw), env))
    /\ UNCHANGED <<raw, env>>
    /\ UNCHANGED mainVars

VerifyNext == Verify

VerifySpec == VerifyInit /\ [][VerifyNext]_vars

-----------------------------------------------------------------------------
(* Properties of a run (Spec).                                             *)

StatusTag(i) == IF IsSome(links[i].status) THEN Unwrap(links[i].status).tag ELSE "None"

HasUnreachable == \E i \in 1..Len(links) : StatusTag(i) = "Unreachable"

NumQuestionable == Cardinality({i \in 1..Len(links) : StatusTag(i) = "Questionable"})

\* the verifications that have started and not yet completed
InFlight == {i \in 1..Len(task) : task[i] = "verifying"}

\* the concurrency limit of the configuration surface.  Opt (main.rs:26-42)
\* has no such field and nothing in main consults one.
ConcurrencyLimit == 1

\* C1: no Link is received twice, and when the run has ended every Link that
\* was handed to the iter_links callback has been received exactly once.
C1_EveryLinkDeliveredOnce ==
    /\ \A i \in 1..Len(links) : delivered[i] <= 1
    /\ exit_code # None => \A i \in 1..Len(links) : delivered[i] = 1

\* C2: the number of verifications in flight never exceeds the configured
\* concurrency limit.
C2_InFlightWithinLimit == Cardinality(InFlight) <= ConcurrencyLimit

\* C3: a run in which some extracted Link resolved to Unreachable ends with a
\* non-zero exit status.
C3_UnreachableExitsNonZero ==
    (exit_code # None /\ HasUnreachable) => Unwrap(exit_code) # 0

\* C3 witness: a run that reached its summary with an Unreachable and a
\* Questionable link and exited 1.
C3_Witness ==
    /\ pc = "exited"
    /\ IsSome(summary)
    /\ HasUnreachable
    /\ NumQuestionable >= 1
    /\ exit_code = Some(1)

\* C4: a run with at least one link, none of them Unreachable and M of them
\* Questionable, exits 0 with a summary of 0 errors and M warnings.
C4_CleanRunExitsZero ==
    (exit_code # None /\ n_links >= 1 /\ ~HasUnreachable) =>
        /\ exit_code = Some(0)
        /\ IsSome(summary)
        /\ StartsWith(Unwrap(summary).msg, <<"0", " error">>)
        /\ Contains(Unwrap(summary).msg,
                    <<", ">> \o Digits(NumQuestionable) \o <<" warning">>)

\* C5: a run in which a call of iter_links failed still reaches its summary,
\* reports every Link that was dispatched, and exits non-zero only when some
\* Link is Unreachable.
C5_ExtractionErrorNotFatal ==
    (exit_code # None /\ scan_failed) =>
        /\ IsSome(summary)
        /\ \A i \in 1..Len(links) : delivered[i] = 1
        /\ Unwrap(exit_code) # 0 => HasUnreachable

\* the categories whose glob set matches the current path
Hits == {c \in 1..Len(doc_files) : is_match(doc_files[c], path)}

\* C13: the categories are consulted in order for a path, none after the
\* first that matches, which is the one the path is scanned with; a path no
\* category matches is never scanned, has no Link and fails no run.
C13_FirstMatchWins ==
    /\ \A k \in 1..Len(consulted) : consulted[k] = k
    /\ Hits # {} => \A c \in Hits : Len(consulted) <= c
    /\ pc = "scan" => d \in Hits /\ Len(consulted) = d
    /\ Hits = {} => /\ pc \notin {"scan", "returned"}
                    /\ \A i \in 1..Len(links) : links[i].file # path.id
                    /\ ~scan_failed

\* a Markdown file, matched by the second category after the first was
\* consulted, is being scanned and has yielded a Link
C13_Witness ==
    /\ pc = "scan"
    /\ path.ext = "md"
    /\ consulted = <<1, 2>>
    /\ \E i \in 1..Len(links) : links[i].file = path.id

\* C14: the status of a Link is absent until its task has verified it, is
\* set in the one step that ends the verification and never changes again;
\* no task verifies a second time, and every Link in the channel or received
\* by main has its status.
C14_StatusSetOnce ==
    /\ [](\A i \in 1..Len(links) :
             /\ task[i] \in {"spawned", "verifying", "panicked"} => links[i].status = None
             /\ task[i] \in {"sending", "done"} => IsSome(links[i].status)
             /\ delivered[i] > 0 => IsSome(links[i].status))
    /\ [](\A k \in 1..Len(chan) : IsSome(links[chan[k]].status))
    /\ [][\A i \in 1..Len(links) :
             /\ IsSome(links[i].status) => links'[i] = links[i]
             /\ links'[i].status # links[i].status =>
                    task[i] = "verifying" /\ task'[i] = "sending"
             /\ task[i] \notin {"spawned", "verifying"} => task'[i] # "verifying"]_vars

\* main has received one Link, with its status, while the task of another
\* is still verifying
C14_Witness ==
    \E i, j \in 1..Len(links) :
        /\ delivered[i] = 1 /\ IsSome(links[i].status)
        /\ task[j] = "verifying" /\ links[j].status = None

\* C15: once the receiver is gone, a task left with its verified Link to
\* send neither ends nor puts the Link anywhere: all it can do is end the
\* process, and the process then ends with status 1.
C15_FailedSendIsFatal ==
    /\ [][~rx => /\ chan' = chan
                 /\ \A i \in 1..Len(task) :
                       task[i] = "sending" => task'[i] = "sending"]_vars
    /\ [](\A i \in 1..Len(task) :
             (Running /\ ~rx /\ task[i] = "sending") => ENABLED TaskSendFail(i))
    /\ [](~rx /\ exit_code # None => exit_code = Some(1))

\* a task whose send failed has ended the process with status 1 before main,
\* which is returning its error, got to do it
C15_Witness ==
    /\ ~rx
    /\ pc = "returned"
    /\ exit_code = Some(1)
    /\ \E i \in 1..Len(task) : task[i] = "sending"

\* C17: main is past its receive loop only when the walk is over, its
\* sender is dropped, the channel is empty and every spawned task has ended,
\* having had its Link received unless it panicked: nothing can arrive after
\* the summary.
C17_SummaryAfterProducers ==
    (pc = "summary" \/ IsSome(summary)) =>
        /\ ~tx
        /\ chan = <<>>
        /\ LiveSenders = {}
        /\ \A i \in 1..Len(task) :
              /\ task[i] \in {"done", "panicked"}
              /\ task[i] = "done" => delivered[i] = 1

\* the summary is written after two Links were received
C17_Witness ==
    /\ IsSome(summary)
    /\ Len(task) = 2
    /\ \A i \in 1..Len(task) : task[i] = "done" /\ delivered[i] = 1

C19_NoDeadlock ==
    /\ Len(chan) <= ChanCap
    /\ exit_code # None \/ ENABLED Next

\* more Links are verified than the channel holds before main receives: the
\* channel is full and a task waits to send
C19_Witness ==
    /\ pc \in {"walk", "match", "scan"}
    /\ Len(chan) = ChanCap
    /\ \E i \in 1..Len(task) : task[i] = "sending" /\ ~ENABLED TaskSend(i)

\* the Links main has received
Consumed == {i \in 1..Len(links) : delivered[i] > 0}

\* the counts of the summary are those of the Links received
CountsMatchConsumed ==
    /\ n_links = Cardinality(Consumed)
    /\ n_errors = Cardinality({i \in Consumed : StatusTag(i) = "Unreachable"})
    /\ n_warnings = Cardinality({i \in Consumed : StatusTag(i) = "Questionable"})
    /\ n_links > 0 => Unwrap(summary).msg = SummaryLine(n_errors, n_warnings, n_links)

\* C20: when the summary is produced, the total it reports is the number of
\* Links received, its errors the number of them that are Unreachable and
\* its warnings the number that are Questionable.
C20_SummaryCountsConsumed == IsSome(summary) => CountsMatchConsumed

\* the same for the runs in which no task panicked
C20_CountsWhenNoPanic ==
    (IsSome(summary) /\ \A i \in 1..Len(task) : task[i] # "panicked") =>
        CountsMatchConsumed

-----------------------------------------------------------------------------
(* Properties of Link::verify (VerifySpec).                                *)

VLink == Link_new(NoPath.id, raw)

VOut == Unwrap(out)

\* the decimal value of a run of digit pieces, -1 when a piece is no digit
RECURSIVE ParseDecimal(_)
ParseDecimal(s) ==
    LET digits == <<"0", "1", "2", "3", "4", "5", "6", "7", "8", "9">>
        last == s[Len(s)]
        v == IF \E k \in 1..10 : digits[k] = last
             THEN (CHOOSE k \in 1..10 : digits[k] = last) - 1
             ELSE -1
    IN  IF s = <<>> \/ v = -1 THEN -1
        ELSE IF Len(s) = 1 THEN v
        ELSE LET rest == ParseDecimal(SubSeq(s, 1, Len(s) - 1))
             IN  IF rest = -1 THEN -1 ELSE rest * 10 + v

\* the text names the number n in decimal
MentionsNumber(text, n) ==
    \E i \in 1..Len(text) : \E j \in i..Len(text) :
        ParseDecimal(SubSeq(text, i, j)) = n

\* the section search of a Local link takes place: a section is present and
\* the base, when there is one, exists
SectionSearched ==
    LET sp == split_section(raw)
    IN  IsSome(sp.section)
            /\ (IsSome(sp.base) => Exists(env, Join(Dir(env), Unwrap(sp.base))))

\* C6: a read error during the section search of a Local link yields
\* Questionable carrying the error detail, not a panic.
C6_ReadErrorIsQuestionable ==
    (out # None /\ VLink.kind = "Local" /\ SectionSearched /\ ~env.content.readable) =>
        /\ VOut.tag = "Questionable"
        /\ Contains(VOut.reason, <<env.content.err>>)

\* C7: an Http link whose probe is answered with a status in 200..299 or with
\* 302 is Reachable.
C7_SuccessCodesReachable ==
    (/\ out # None /\ VLink.kind = "Http" /\ env.resp.ok
     /\ (env.resp.status \in 200..299 \/ env.resp.status = 302)) =>
        VOut.tag = "Reachable"

\* C8: an Http link answered with 401, 403, 405 or 406 is Questionable, and
\* one answered with a status that is neither 2xx, 302 nor one of those four
\* is Unreachable with a diagnostic that names the status code.
C8_GatedAndOtherCodes ==
    (out # None /\ VLink.kind = "Http" /\ env.resp.ok) =>
        LET c == env.resp.status
        IN  /\ c \in {401, 403, 405, 406} => VOut.tag = "Questionable"
            /\ (c \notin (200..299) \cup {302, 401, 403, 405, 406}) =>
                  /\ VOut.tag = "Unreachable"
                  /\ IsSome(VOut.reason)
                  /\ MentionsNumber(Unwrap(VOut.reason), c)

\* C8 witness: a 404 answer has been resolved to Unreachable.
C8_Witness ==
    /\ out # None /\ VLink.kind = "Http" /\ env.resp.ok
    /\ env.resp.status = 404
    /\ VOut.tag = "Unreachable"
    /\ MentionsNumber(Unwrap(VOut.reason), 404)

\* C9 as stated: a probe that fails without a response is Unreachable, with
\* the diagnostic "timeout" for a timeout and no diagnostic otherwise.
C9_TimeoutDiagnosticIsTimeout ==
    (out # None /\ VLink.kind = "Http" /\ ~env.resp.ok) =>
        /\ VOut.tag = "Unreachable"
        /\ VOut.reason = IF env.resp.err = "Timeout" THEN Some(<<"timeout">>) ELSE None

\* C9 amended: a probe that fails without a response is Unreachable, with
\* the diagnostic "timeout error" for a timeout and no diagnostic otherwise;
\* it is never Reachable or Questionable.
C9_FailedProbeUnreachable ==
    (out # None /\ VLink.kind = "Http" /\ ~env.resp.ok) =>
        /\ VOut.tag = "Unreachable"
        /\ VOut.reason = IF env.resp.err = "Timeout" THEN Some(<<"timeout error">>) ELSE None

\* C9 witness: a timed-out probe has been resolved.
C9_Witness ==
    /\ out # None /\ VLink.kind = "Http" /\ ~env.resp.ok
    /\ env.resp.err = "Timeout"
    /\ VOut = Unreachable(Some(<<"timeout error">>))

\* the path a Local link's base names: the referring file's parent
\* directory, or the current directory when it has none, joined with base
Target ==
    Join(IF IsSome(env.parent) THEN Unwrap(env.parent) ELSE <<"./">>,
         Unwrap(split_section(raw).base))

\* C11: a Local link with a base and no section is Reachable when the joined
\* path exists and Unreachable with no diagnostic when it does not; with a
\* section and a missing path it is Unreachable with no diagnostic as well,
\* whatever a search of the section target would have given.
C11_BaseExistenceDecides ==
    (out # None /\ VLink.kind = "Local" /\ IsSome(split_section(raw).base)) =>
        IF Target \in env.fs
        THEN ~IsSome(split_section(raw).section) => VOut.tag = "Reachable"
        ELSE VOut.tag = "Unreachable" /\ VOut.reason = None

\* C11 witness: a link to `a` from a file in docs/ has been resolved to
\* Unreachable because only ./a exists.
C11_Witness ==
    /\ out # None
    /\ raw = <<"a">>
    /\ env.parent = Some(Docs)
    /\ env.fs = {Join(CurDir, <<"a">>)}
    /\ VOut.tag = "Unreachable"

\* a line of the section target contains the section name with '-' replaced
\* by ' ', compared case-insensitively
SectionOnSomeLine(s) ==
    \E n \in 1..Len(env.content.lines) :
        Contains(Lower(env.content.lines[n]), Lower(ReplaceHyphens(s)))

\* C12: a Local link with a section whose section target is readable is
\* Reachable exactly when a line of the target contains the section name
\* (hyphens as spaces, case-insensitive), and is otherwise Questionable with
\* a reason that mentions the section name.
C12_SectionFoundIffOnALine ==
    (out # None /\ VLink.kind = "Local" /\ SectionSearched /\ env.content.readable) =>
        LET s == Unwrap(split_section(raw).section)
        IN  IF SectionOnSomeLine(s)
            THEN VOut.tag = "Reachable"
            ELSE VOut.tag = "Questionable" /\ Contains(VOut.reason, s)

\* C12 witness: `#s-a` has been resolved to Reachable against a file whose
\* only line is the heading "# S A".
C12_Witness ==
    /\ out # None
    /\ raw = <<"#", "s", "-", "a">>
    /\ env.content = WithSpacedHeading
    /\ VOut.tag = "Reachable"

-----------------------------------------------------------------------------
(* Properties of the summary (LogSpec).                                    *)

\* the summary of a run without links has been written
NoLinksPrinted == \E k \in 1..Len(printed) : Contains(printed[k], <<"No links found">>)

\* C16: a run that found no link has written "No links found" and ended
\* with status 0, whatever the verbosity.
C16_NoLinksMessage ==
    (exit_code # None /\ n_links = 0) => exit_code = Some(0) /\ NoLinksPrinted

\* the same for the runs with -vv or more, where the logger shows INFO
C16_NoLinksMessageWhenVerbose ==
    (exit_code # None /\ n_links = 0 /\ opt.verbose >= 2) =>
        exit_code = Some(0) /\ NoLinksPrinted

-----------------------------------------------------------------------------
(* Properties of Link::split_section (SplitSpec).                          *)

\* the split C10 describes: a trailing token preceded by a run of '#' gives
\* the token as section and the text before the first '#' of that run as
\* base, absent when empty; any other text is its own base with no section
SplitAsDescribed(r) ==
    LET token == {j \in 1..Len(r) : \A i \in j..Len(r) : r[i] \in TokenChars}
    IN  IF token = {} THEN [base |-> Some(r), section |-> None]
        ELSE LET j == CHOOSE x \in token : \A y \in token : x <= y
                 run == {k \in 1..(j - 1) : \A i \in k..(j - 1) : r[i] = "#"}
             IN  IF run = {} THEN [base |-> Some(r), section |-> None]
                 ELSE LET k == CHOOSE x \in run : \A y \in run : x <= y
                          before == SubSeq(r, 1, k - 1)
                      IN  [base |-> IF before = <<>> THEN None ELSE Some(before),
                           section |-> Some(SubSeq(r, j, Len(r)))]

\* C10: split_section splits a raw text as described: the section is the
\* trailing token and the base is the text before the first '#' of the run
\* of '#' in front of it.
C10_SplitAsDescribed == out # None => Unwrap(out) = SplitAsDescribed(raw)

====
